---- MODULE Spec2Model ----
(***************************************************************************)
(* Offline-first task list: TaskService, SyncService and the two express   *)
(* routers that drive them.                                                *)
(*                                                                         *)
(* JavaScript objects are TLA+ records whose DOMAIN holds the properties   *)
(* that are defined; a property that is `undefined` is absent from the     *)
(* DOMAIN.  `null` and NaN are the empty sequence, a present value v is    *)
(* <<v>>.  JSON text is a sequence of <<key, value>> pairs.  SQLite rows   *)
(* keep 0/1 for booleans, as the INSERT/UPDATE statements write them.      *)
(*                                                                         *)
(* Every `await` of the source is a point where another request handler    *)
(* may run: each action below is the code between two awaits.  The column  *)
(* `description` is handled by the code exactly as `title` is and          *)
(* `created_at` of a task and `updated_at` of a queue row are written but  *)
(* never read by the modelled code; the three are left out.                *)
(***************************************************************************)
EXTENDS Integers, Sequences, FiniteSets, TLC

\* ---- bounds -------------------------------------------------------------
MaxTime == 2
MaxRequests == 3
MaxPasses == 3
MaxOverlapTotal == 3
MaxSerialTotal == 4
MaxBatchSize == 2
MaxFaultTotal == 4
MaxRaceTotal == 2

\* ---- program constants --------------------------------------------------
MAX_RETRIES == 3

TaskOrder == <<"t1", "t2">>
TaskIds == {TaskOrder[i] : i \in 1..Len(TaskOrder)}
ClientOrder == <<"c1", "c2">>
PassOrder == <<"s1", "s2">>
Clients == {ClientOrder[i] : i \in 1..Len(ClientOrder)}
Passes == {PassOrder[i] : i \in 1..Len(PassOrder)}
Operations == {"create", "update", "delete"}

VARIABLES tasks, queue, now, nextId, client, sync, SYNC_BATCH_SIZE, budget, serial

vars == <<tasks, queue, now, nextId, client, sync, SYNC_BATCH_SIZE, budget, serial>>

\* ---- JavaScript values --------------------------------------------------
EmptyObj == [k \in {} |-> k]
Null == <<>>

Str(s) == [type |-> "string", value |-> s]
Bool(b) == [type |-> "boolean", value |-> b]

Has(obj, k) == k \in DOMAIN obj

Range(s) == {s[i] : i \in 1..Len(s)}

\* property order of a Task literal / of mapRowToTask
TaskKeys == <<"id", "title", "completed", "is_deleted", "sync_status",
              "updated_at", "last_synced_at", "server_id">>

JSONstringify(obj) ==
  LET present == SelectSeq(TaskKeys, LAMBDA k : Has(obj, k))
  IN [i \in 1..Len(present) |-> <<present[i], obj[present[i]]>>]

JSONparse(text) ==
  [k \in {text[i][1] : i \in 1..Len(text)} |->
     (CHOOSE p \in Range(text) : p[1] = k)[2]]

\* new Date(x).getTime(): NaN for a missing timestamp
getTime(obj) == IF Has(obj, "updated_at") THEN <<obj.updated_at>> ELSE Null

\* a > b on numbers: false as soon as one side is NaN
Greater(a, b) == a # Null /\ b # Null /\ a[1] > b[1]

\* ---- TaskService --------------------------------------------------------
mapRowToTask(row) ==
  [id |-> row.id, title |-> row.title,
   completed |-> (row.completed # 0), is_deleted |-> (row.is_deleted # 0),
   sync_status |-> row.sync_status, updated_at |-> row.updated_at,
   last_synced_at |-> row.last_synced_at, server_id |-> row.server_id]

getTaskDeletedToo(id) ==
  IF id \in DOMAIN tasks THEN <<mapRowToTask(tasks[id])>> ELSE Null

\* SELECT * FROM tasks WHERE id = ? AND is_deleted = 0
getTask(id) ==
  IF id \in DOMAIN tasks /\ tasks[id].is_deleted = 0
  THEN <<mapRowToTask(tasks[id])>> ELSE Null

\* the Task literal of createTask and the row its INSERT writes
NewTask(id, taskData, t) ==
  [id |-> id, title |-> IF Has(taskData, "title") THEN taskData.title ELSE "",
   completed |-> FALSE, is_deleted |-> FALSE, sync_status |-> "pending",
   updated_at |-> t, last_synced_at |-> Null, server_id |-> Null]

InsertTaskRow(task) ==
  [id |-> task.id, title |-> task.title,
   completed |-> IF task.completed THEN 1 ELSE 0,
   is_deleted |-> IF task.is_deleted THEN 1 ELSE 0,
   sync_status |-> task.sync_status, updated_at |-> task.updated_at,
   last_synced_at |-> task.last_synced_at, server_id |-> task.server_id]

\* UPDATE tasks SET <fields of updates that are defined>, updated_at = ?,
\* sync_status = 'pending' WHERE id = ?
UpdateTaskRow(id, updates, t) ==
  IF id \notin DOMAIN tasks THEN tasks
  ELSE [tasks EXCEPT ![id] =
         [@ EXCEPT !.title = IF Has(updates, "title") THEN updates.title ELSE @,
                   !.completed = IF Has(updates, "completed")
                                 THEN (IF updates.completed THEN 1 ELSE 0) ELSE @,
                   !.updated_at = t,
                   !.sync_status = "pending"]]

SoftDeleteRowSynced(id, t) ==
  IF id \notin DOMAIN tasks THEN tasks
  ELSE [tasks EXCEPT ![id] = [@ EXCEPT !.is_deleted = 1, !.updated_at = t,
                                       !.sync_status = "synced"]]

\* UPDATE tasks SET is_deleted = 1, updated_at = ?, sync_status = ? WHERE id = ?
SoftDeleteRow(id, t) ==
  IF id \notin DOMAIN tasks THEN tasks
  ELSE [tasks EXCEPT ![id] = [@ EXCEPT !.is_deleted = 1, !.updated_at = t,
                                       !.sync_status = "pending"]]

\* ---- sync_queue ---------------------------------------------------------
\* SELECT * FROM sync_queue WHERE task_id = ? AND operation = ?
Matching(taskId, operation) ==
  SelectSeq(queue, LAMBDA r : r.task_id = taskId /\ r.operation = operation)

RequeueRowsKeepRetry(taskId, operation, data) ==
  [i \in 1..Len(queue) |->
     IF queue[i].task_id = taskId /\ queue[i].operation = operation
     THEN [queue[i] EXCEPT !.data = data]
     ELSE queue[i]]

\* UPDATE sync_queue SET data = ?, retry_count = 0 WHERE task_id = ? AND operation = ?
RequeueRows(taskId, operation, data) ==
  [i \in 1..Len(queue) |->
     IF queue[i].task_id = taskId /\ queue[i].operation = operation
     THEN [queue[i] EXCEPT !.data = data, !.retry_count = 0]
     ELSE queue[i]]

\* INSERT INTO sync_queue (id, task_id, operation, data, retry_count, created_at)
InsertQueueRow(taskId, operation, data) ==
  Append(queue, [id |-> nextId, task_id |-> taskId, operation |-> operation,
                 data |-> data, retry_count |-> 0, created_at |-> now,
                 error_message |-> Null, status |-> Null])

\* DELETE FROM sync_queue WHERE id = ?
DeleteQueueRow(itemId) == SelectSeq(queue, LAMBDA r : r.id # itemId)

\* ---- request handlers of the task router --------------------------------
IdleClient == [pc |-> "idle", id |-> "", operation |-> "", obj |-> EmptyObj,
               data |-> <<>>, now |-> 0, existing |-> FALSE, status |-> 0]

IdlePass == [pc |-> "idle", queueItems |-> <<>>, bi |-> 0, idx |-> 0,
             results |-> <<>>, caught |-> FALSE, error |-> "",
             resolvedTask |-> EmptyObj, now |-> 0, hasConnectivity |-> FALSE,
             result |-> [success |-> 0, failed |-> 0, conflicts |-> 0, total |-> 0],
             status |-> 0]

AllIdle == (\A c \in Clients : client[c].pc = "idle")
           /\ (\A p \in Passes : sync[p].pc = "idle")

\* a caller that awaits each response before its next request never has two
\* handlers in flight
MayStart == serial => AllIdle

\* the handlers are interchangeable: a request takes the first free one
FirstFree(order, state, x) ==
  \E i \in 1..Len(order) :
    /\ order[i] = x
    /\ state[x].pc = "idle"
    /\ \A j \in 1..(i - 1) : state[order[j]].pc # "idle"

\* res.status(status).json(...): pc "done" until the client has the answer
Respond(c, status) ==
  client' = [client EXCEPT ![c] = [IdleClient EXCEPT !.pc = "done",
                                                     !.status = status,
                                                     !.id = client[c].id,
                                                     !.operation = client[c].operation]]

\* addToSyncQueue up to its first await: serialize, issue the SELECT
CallAddToSyncQueue(c, taskId, operation, data) ==
  client' = [client EXCEPT ![c] = [@ EXCEPT !.pc = "enq_select", !.id = taskId,
                                            !.operation = operation,
                                            !.data = JSONstringify(data)]]

CreateBodies == {[title |-> Str("A")], EmptyObj}
UpdateBodies == {[title |-> Str("B")], [completed |-> Str("yes")]}

\* uuidv4(): an identifier no stored task carries; which one is immaterial,
\* the first unused of TaskOrder is taken
FreshIds ==
  {TaskOrder[i] : i \in {k \in 1..Len(TaskOrder) :
                           /\ TaskOrder[k] \notin DOMAIN tasks
                           /\ \A j \in 1..(k - 1) : TaskOrder[j] \in DOMAIN tasks}}

\* router.post('/'): validation, createTask with its INSERT, then the call
\* addToSyncQueue(newTask.id, 'create', newTask)
PostTask(c) ==
  /\ FirstFree(ClientOrder, client, c) /\ MayStart /\ budget.requests > 0 /\ budget.total > 0
  /\ budget' = [budget EXCEPT !.requests = @ - 1, !.total = @ - 1]
  /\ \E body \in CreateBodies :
       IF ~Has(body, "title") \/ body.title.type # "string" \/ body.title.value = ""
       THEN Respond(c, 400) /\ tasks' = tasks
       ELSE \E id \in FreshIds :
              LET newTask == NewTask(id, [title |-> body.title.value], now)
              IN /\ tasks' = [t \in DOMAIN tasks \cup {id} |->
                                IF t = id THEN InsertTaskRow(newTask) ELSE tasks[t]]
                 /\ CallAddToSyncQueue(c, newTask.id, "create", newTask)
  /\ UNCHANGED <<queue, now, nextId, sync, SYNC_BATCH_SIZE, serial>>

\* router.put('/:id'): validation, then updateTask: existingTask read; null
\* answers 404, else `now` is taken and the UPDATE issued
PutTask(c) ==
  /\ FirstFree(ClientOrder, client, c) /\ MayStart /\ budget.requests > 0 /\ budget.total > 0
  /\ budget' = [budget EXCEPT !.requests = @ - 1, !.total = @ - 1]
  /\ \E id \in TaskIds, body \in UpdateBodies :
       IF \/ Has(body, "title") /\ body.title.type # "string"
          \/ Has(body, "completed") /\ body.completed.type # "boolean"
       THEN Respond(c, 400)
       ELSE IF getTask(id) = Null
       THEN client' = [client EXCEPT ![c] =
              [IdleClient EXCEPT !.pc = "done", !.status = 404, !.id = id,
                                 !.operation = "update"]]
       ELSE client' = [client EXCEPT ![c] =
              [IdleClient EXCEPT !.pc = "upd_write", !.id = id, !.operation = "update",
                                 !.obj = [k \in DOMAIN body |-> body[k].value],
                                 !.now = now]]
  /\ UNCHANGED <<tasks, queue, now, nextId, sync, SYNC_BATCH_SIZE, serial>>

UpdWrite(c) ==
  /\ client[c].pc = "upd_write"
  /\ tasks' = UpdateTaskRow(client[c].id, client[c].obj, client[c].now)
  /\ client' = [client EXCEPT ![c] = [@ EXCEPT !.pc = "upd_reread"]]
  /\ UNCHANGED <<queue, now, nextId, sync, SYNC_BATCH_SIZE, budget, serial>>

\* updateTask returns getTask(id); the route answers 404 on null, else calls
\* addToSyncQueue(updatedTask.id, 'update', updatedTask)
UpdReread(c) ==
  /\ client[c].pc = "upd_reread"
  /\ IF getTask(client[c].id) = Null
     THEN Respond(c, 404)
     ELSE CallAddToSyncQueue(c, getTask(client[c].id)[1].id, "update",
                             getTask(client[c].id)[1])
  /\ UNCHANGED <<tasks, queue, now, nextId, sync, SYNC_BATCH_SIZE, budget, serial>>

\* router.delete('/:id'): deleteTask: existingTask read; null answers 404,
\* else `now` is taken and the UPDATE issued
DeleteTask(c) ==
  /\ FirstFree(ClientOrder, client, c) /\ MayStart /\ budget.requests > 0 /\ budget.total > 0
  /\ budget' = [budget EXCEPT !.requests = @ - 1, !.total = @ - 1]
  /\ \E id \in TaskIds :
       client' = [client EXCEPT ![c] =
         IF getTask(id) = Null
         THEN [IdleClient EXCEPT !.pc = "done", !.status = 404, !.id = id,
                                 !.operation = "delete"]
         ELSE [IdleClient EXCEPT !.pc = "del_write", !.id = id, !.operation = "delete",
                                 !.now = now]]
  /\ UNCHANGED <<tasks, queue, now, nextId, sync, SYNC_BATCH_SIZE, serial>>

\* the soft-delete UPDATE completes; the route calls addToSyncQueue(id, 'delete', {})
DelWrite(c) ==
  /\ client[c].pc = "del_write"
  /\ tasks' = SoftDeleteRow(client[c].id, client[c].now)
  /\ CallAddToSyncQueue(c, client[c].id, "delete", EmptyObj)
  /\ UNCHANGED <<queue, now, nextId, sync, SYNC_BATCH_SIZE, budget, serial>>

\* addToSyncQueue: the SELECT returns, the UPDATE or the INSERT is issued
EnqSelect(c) ==
  /\ client[c].pc = "enq_select"
  /\ client' = [client EXCEPT ![c] =
       [@ EXCEPT !.pc = "enq_write",
                 !.existing = Len(Matching(client[c].id, client[c].operation)) > 0]]
  /\ UNCHANGED <<tasks, queue, now, nextId, sync, SYNC_BATCH_SIZE, budget, serial>>

\* addToSyncQueue: the UPDATE or the INSERT completes and the route answers
EnqWrite(c) ==
  /\ client[c].pc = "enq_write"
  /\ IF client[c].existing
     THEN /\ queue' = RequeueRows(client[c].id, client[c].operation, client[c].data)
          /\ nextId' = nextId
     ELSE /\ queue' = InsertQueueRow(client[c].id, client[c].operation, client[c].data)
          /\ nextId' = nextId + 1
  /\ Respond(c, IF client[c].operation = "create" THEN 201 ELSE 200)
  /\ UNCHANGED <<tasks, now, sync, SYNC_BATCH_SIZE, budget, serial>>

\* the client has read the answer
ClientDone(c) ==
  /\ client[c].pc = "done"
  /\ client' = [client EXCEPT ![c] = IdleClient]
  /\ UNCHANGED <<tasks, queue, now, nextId, sync, SYNC_BATCH_SIZE, budget, serial>>

\* the clock of new Date() and CURRENT_TIMESTAMP; a handler runs within one
\* reading of it
Tick ==
  /\ now < MaxTime /\ AllIdle
  /\ now' = now + 1
  /\ UNCHANGED <<tasks, queue, nextId, client, sync, SYNC_BATCH_SIZE, budget, serial>>

\* ---- SyncService --------------------------------------------------------
\* Array.prototype.slice(a, b) on a 0-based array
slice(items, a, b) ==
  SubSeq(items, a + 1, IF b < Len(items) THEN b ELSE Len(items))

RECURSIVE BatchesFromFullOnly(_, _)
BatchesFromFullOnly(items, i) ==
  IF i + SYNC_BATCH_SIZE <= Len(items)
  THEN <<slice(items, i, i + SYNC_BATCH_SIZE)>> \o BatchesFromFullOnly(items, i + SYNC_BATCH_SIZE)
  ELSE <<>>

\* for (let i = 0; i < queueItems.length; i += SYNC_BATCH_SIZE) batches.push(slice)
RECURSIVE BatchesFrom(_, _)
BatchesFrom(items, i) ==
  IF i < Len(items)
  THEN <<slice(items, i, i + SYNC_BATCH_SIZE)>> \o BatchesFrom(items, i + SYNC_BATCH_SIZE)
  ELSE <<>>

batches(items) == BatchesFrom(items, 0)

\* SELECT * FROM sync_queue ORDER BY created_at ASC: the rows in an order
\* that is ascending in created_at; SQL leaves the order of equal keys open
IsPermutation(s, t) ==
  /\ Len(s) = Len(t)
  /\ \E f \in [1..Len(s) -> 1..Len(s)] :
       /\ \A i, j \in 1..Len(s) : i # j => f[i] # f[j]
       /\ \A i \in 1..Len(s) : s[i] = t[f[i]]

OrderedByCreatedAtDesc(s) ==
  \A i, j \in 1..Len(s) : i < j => s[i].created_at >= s[j].created_at

OrderedByCreatedAt(s) ==
  \A i, j \in 1..Len(s) : i < j => s[i].created_at <= s[j].created_at

\* the repository's processBatch: one entry per item, localId read from a
\* property the sync_queue rows do not have
processBatch(items) ==
  [i \in 1..Len(items) |->
     IF Has(items[i], "localId")
     THEN [localId |-> items[i].localId, success |-> TRUE, data |-> items[i].data]
     ELSE [success |-> TRUE, data |-> items[i].data]]

findAny(results, taskId) ==
  IF Len(results) > 0 THEN <<results[1]>> ELSE Null

\* batchResponse.results.find(r => r.localId === item.task_id)
find(results, taskId) ==
  LET hits == SelectSeq(results, LAMBDA r : Has(r, "localId") /\ r.localId = taskId)
  IN IF Len(hits) > 0 THEN <<hits[1]>> ELSE Null

\* responseItem?.flag
Truthy(responseItem, flag) ==
  responseItem # Null /\ Has(responseItem[1], flag) /\ responseItem[1][flag]

resolveConflict(localTask, serverTask) ==
  IF Greater(getTime(serverTask), getTime(localTask)) THEN serverTask ELSE localTask

\* UPDATE tasks SET sync_status = ?[, server_id = ?][, last_synced_at = CURRENT_TIMESTAMP]
updateSyncStatus(taskId, status, serverData) ==
  IF taskId \notin DOMAIN tasks THEN tasks
  ELSE [tasks EXCEPT ![taskId] =
         [@ EXCEPT !.sync_status = status,
                   !.server_id = IF Has(serverData, "id") THEN <<serverData.id>> ELSE @,
                   !.last_synced_at = IF status = "synced" THEN <<now>> ELSE @]]

AtCeilingOneLate(item) == item.retry_count + 1 > MAX_RETRIES

\* newRetryCount >= this.MAX_RETRIES
AtCeiling(item) == item.retry_count + 1 >= MAX_RETRIES

\* handleSyncError's UPDATE sync_queue ... WHERE id = ?
RecordFailureRow(item, message) ==
  [i \in 1..Len(queue) |->
     IF queue[i].id = item.id
     THEN IF AtCeiling(item)
          THEN [queue[i] EXCEPT !.retry_count = item.retry_count + 1,
                                !.error_message = <<message>>,
                                !.status = <<"failed">>]
          ELSE [queue[i] EXCEPT !.retry_count = item.retry_count + 1,
                                !.error_message = <<message>>]
     ELSE queue[i]]

\* ---- what a batch exchange can answer -----------------------------------
ServerTimes == {1}

ServerTask(taskId, t) ==
  [id |-> taskId, title |-> "S", completed |-> TRUE, is_deleted |-> FALSE,
   sync_status |-> "synced", updated_at |-> t, last_synced_at |-> Null,
   server_id |-> <<"r">>]

\* the entries a remote store can return for one submitted item; <<>> is
\* "no entry"
EntriesFor(item) ==
  {<<>>,
   <<[localId |-> item.task_id, success |-> TRUE, data |-> [id |-> "r"]]>>,
   <<[localId |-> item.task_id, error |-> "Server error"]>>}
  \cup {<<[localId |-> item.task_id, conflict |-> TRUE,
           serverData |-> ServerTask(item.task_id, t)]>> : t \in ServerTimes}

RECURSIVE Flatten(_)
Flatten(ss) == IF ss = <<>> THEN <<>> ELSE Head(ss) \o Flatten(Tail(ss))

\* processBatch is public and is what a transport replaces: the exchange
\* answers with the repository's stub response or with any array over
\* EntriesFor, in the order of the submitted items
Responses(batch) ==
  {processBatch(batch)} \cup
  {Flatten(pick) : pick \in {f \in [1..Len(batch) -> UNION {EntriesFor(batch[i]) : i \in 1..Len(batch)}] :
                                \A i \in 1..Len(batch) : f[i] \in EntriesFor(batch[i])}}

\* ---- SyncService.sync() and POST /sync ----------------------------------
CurrentBatch(ps) == batches(ps.queueItems)[ps.bi]
CurrentItem(ps) == CurrentBatch(ps)[ps.idx]
ResponseItem(ps) == find(ps.results, CurrentItem(ps).task_id)

EnterCatchRethrow(ps, message) ==
  [IdlePass EXCEPT !.pc = "done", !.status = 500, !.hasConnectivity = ps.hasConnectivity]

\* catch (batchError): handleSyncError for the batch's items from the first
EnterCatch(ps, message) ==
  [ps EXCEPT !.caught = TRUE, !.error = message, !.idx = 1, !.pc = "record_failure"]

\* the body of `for (const item of batch)` up to its first await
Dispatch(ps, i) ==
  LET item == CurrentBatch(ps)[i]
      responseItem == find(ps.results, item.task_id)
  IN IF ps.caught
     THEN [ps EXCEPT !.idx = i, !.pc = "record_failure"]
     ELSE IF Truthy(responseItem, "success")
     THEN [ps EXCEPT !.idx = i, !.pc = "mark_synced"]
     ELSE IF Truthy(responseItem, "conflict")
     THEN IF Has(responseItem[1], "serverData")
          THEN [ps EXCEPT !.idx = i, !.pc = "conflict_get",
                          !.resolvedTask = resolveConflict(JSONparse(item.data),
                                                           responseItem[1].serverData)]
          ELSE EnterCatch(ps, "TypeError")
     ELSE [ps EXCEPT !.idx = i, !.pc = "record_failure",
                     !.error = IF responseItem # Null /\ Has(responseItem[1], "error")
                               THEN responseItem[1].error ELSE "Unknown error"]

\* `return result` followed by the route's res.json
Return(ps) == [IdlePass EXCEPT !.pc = "done", !.result = ps.result, !.status = 200,
                               !.hasConnectivity = ps.hasConnectivity]

\* the loop headers after an item has been handled
Advance(ps) ==
  IF ps.idx < Len(CurrentBatch(ps))
  THEN Dispatch(ps, ps.idx + 1)
  ELSE IF ps.bi < Len(batches(ps.queueItems))
  THEN [ps EXCEPT !.bi = ps.bi + 1, !.idx = 0, !.caught = FALSE, !.error = "",
                  !.results = <<>>, !.resolvedTask = EmptyObj, !.pc = "send"]
  ELSE Return(ps)

SyncRouteUngated(hasConnectivity) ==
  [IdlePass EXCEPT !.pc = "drain", !.hasConnectivity = hasConnectivity]

\* if (!hasConnectivity) return res.status(503); else await syncService.sync()
SyncRoute(hasConnectivity) ==
  IF hasConnectivity
  THEN [IdlePass EXCEPT !.pc = "drain", !.hasConnectivity = TRUE]
  ELSE [IdlePass EXCEPT !.pc = "done", !.status = 503]

DrainedFirstBatch(ps, queueItems) ==
  [ps EXCEPT !.queueItems = queueItems,
             !.result = [@ EXCEPT !.total = IF Len(queueItems) < SYNC_BATCH_SIZE
                                            THEN Len(queueItems) ELSE SYNC_BATCH_SIZE]]

\* result.total = queueItems.length
Drained(ps, queueItems) ==
  [ps EXCEPT !.queueItems = queueItems, !.result = [@ EXCEPT !.total = Len(queueItems)]]

\* router.post('/sync'): checkConnectivity settles: 503 when unreachable, else
\* sync() starts and issues its SELECT
PostSync(p) ==
  /\ FirstFree(PassOrder, sync, p) /\ MayStart /\ budget.passes > 0 /\ budget.total > 0
  /\ budget' = [budget EXCEPT !.passes = @ - 1, !.total = @ - 1]
  /\ \E hasConnectivity \in BOOLEAN :
       sync' = [sync EXCEPT ![p] = SyncRoute(hasConnectivity)]
  /\ UNCHANGED <<tasks, queue, now, nextId, client, SYNC_BATCH_SIZE, serial>>

\* the SELECT returns: total, the empty-queue return, the batches, and the
\* call of processBatch for the first batch
Drain(p) ==
  /\ sync[p].pc = "drain"
  /\ \E queueItems \in {s \in [1..Len(queue) -> Range(queue)] :
                          IsPermutation(s, queue) /\ OrderedByCreatedAt(s)} :
       LET ps == Drained(sync[p], queueItems)
       IN sync' = [sync EXCEPT ![p] =
                     IF Len(queueItems) = 0 THEN Return(ps)
                     ELSE [ps EXCEPT !.bi = 1, !.pc = "send"]]
  /\ UNCHANGED <<tasks, queue, now, nextId, client, SYNC_BATCH_SIZE, budget, serial>>

\* `await this.processBatch(batch)` settles with a response or rejects
ProcessBatch(p) ==
  /\ sync[p].pc = "send"
  /\ \/ \E results \in Responses(CurrentBatch(sync[p])) :
          sync' = [sync EXCEPT ![p] = Dispatch([@ EXCEPT !.results = results], 1)]
     \/ sync' = [sync EXCEPT ![p] = EnterCatch(@, "Network Error")]
  /\ UNCHANGED <<tasks, queue, now, nextId, client, SYNC_BATCH_SIZE, budget, serial>>

\* success branch: updateSyncStatus(item.task_id, 'synced', responseItem.data)
\* completes, result.success++, the DELETE is issued
MarkSynced(p) ==
  /\ sync[p].pc = "mark_synced"
  /\ LET r == ResponseItem(sync[p])[1]
     IN tasks' = updateSyncStatus(CurrentItem(sync[p]).task_id, "synced",
                                  IF Has(r, "data") THEN r.data ELSE EmptyObj)
  /\ sync' = [sync EXCEPT ![p] = [@ EXCEPT !.pc = "remove",
                                           !.result = [@ EXCEPT !.success = @ + 1]]]
  /\ UNCHANGED <<queue, now, nextId, client, SYNC_BATCH_SIZE, budget, serial>>

\* DELETE FROM sync_queue WHERE id = item.id completes (either branch)
Remove(p) ==
  /\ sync[p].pc = "remove"
  /\ queue' = DeleteQueueRow(CurrentItem(sync[p]).id)
  /\ sync' = [sync EXCEPT ![p] = Advance(@)]
  /\ UNCHANGED <<tasks, now, nextId, client, SYNC_BATCH_SIZE, budget, serial>>

\* conflict branch: updateTask(resolvedTask.id, resolvedTask), its getTask
ConflictGet(p) ==
  /\ sync[p].pc = "conflict_get"
  /\ LET rt == sync[p].resolvedTask
     IN sync' = [sync EXCEPT ![p] =
                   IF Has(rt, "id") /\ getTask(rt.id) # Null
                   THEN [@ EXCEPT !.pc = "conflict_update", !.now = now]
                   ELSE [@ EXCEPT !.pc = "conflict_mark"]]
  /\ UNCHANGED <<tasks, queue, now, nextId, client, SYNC_BATCH_SIZE, budget, serial>>

\* updateTask's UPDATE completes; its closing getTask changes nothing and
\* sync() drops the value, so the two awaits are one step
ConflictUpdate(p) ==
  /\ sync[p].pc = "conflict_update"
  /\ tasks' = UpdateTaskRow(sync[p].resolvedTask.id, sync[p].resolvedTask, sync[p].now)
  /\ sync' = [sync EXCEPT ![p] = [@ EXCEPT !.pc = "conflict_mark"]]
  /\ UNCHANGED <<queue, now, nextId, client, SYNC_BATCH_SIZE, budget, serial>>

\* updateSyncStatus(item.task_id, 'synced', resolvedTask) completes,
\* result.conflicts++, the DELETE is issued
ConflictMark(p) ==
  /\ sync[p].pc = "conflict_mark"
  /\ tasks' = updateSyncStatus(CurrentItem(sync[p]).task_id, "synced", sync[p].resolvedTask)
  /\ sync' = [sync EXCEPT ![p] = [@ EXCEPT !.pc = "remove",
                                           !.result = [@ EXCEPT !.conflicts = @ + 1]]]
  /\ UNCHANGED <<queue, now, nextId, client, SYNC_BATCH_SIZE, budget, serial>>

\* handleSyncError's UPDATE of the queue row completes; below the ceiling
\* result.failed++ follows at once
RecordFailure(p) ==
  /\ sync[p].pc = "record_failure"
  /\ queue' = RecordFailureRow(CurrentItem(sync[p]), sync[p].error)
  /\ sync' = [sync EXCEPT ![p] =
                IF AtCeiling(CurrentItem(sync[p]))
                THEN [@ EXCEPT !.pc = "mark_error"]
                ELSE Advance([@ EXCEPT !.result = [@ EXCEPT !.failed = @ + 1]])]
  /\ UNCHANGED <<tasks, now, nextId, client, SYNC_BATCH_SIZE, budget, serial>>

\* at the ceiling: updateSyncStatus(item.task_id, 'error') completes, result.failed++
MarkError(p) ==
  /\ sync[p].pc = "mark_error"
  /\ tasks' = updateSyncStatus(CurrentItem(sync[p]).task_id, "error", EmptyObj)
  /\ sync' = [sync EXCEPT ![p] = Advance([@ EXCEPT !.result = [@ EXCEPT !.failed = @ + 1]])]
  /\ UNCHANGED <<queue, now, nextId, client, SYNC_BATCH_SIZE, budget, serial>>

\* the caller of POST /sync has read the answer
SyncDone(p) ==
  /\ sync[p].pc = "done"
  /\ sync' = [sync EXCEPT ![p] = IdlePass]
  /\ UNCHANGED <<tasks, queue, now, nextId, client, SYNC_BATCH_SIZE, budget, serial>>

\* ---- specifications -----------------------------------------------------
\* a new database file
Fresh ==
  /\ tasks = EmptyObj
  /\ queue = <<>>
  /\ nextId = 1

\* the database file an earlier run left behind: T1 was created and two
\* passes failed on its item (SerialSpec reaches this store)
Restarted ==
  LET task == NewTask("t1", [title |-> "A"], 0)
  IN /\ tasks = [t \in {"t1"} |-> InsertTaskRow(task)]
     /\ queue = <<[id |-> 1, task_id |-> "t1", operation |-> "create",
                   data |-> JSONstringify(task), retry_count |-> 2, created_at |-> 0,
                   error_message |-> <<"Unknown error">>, status |-> Null]>>
     /\ nextId = 2

\* the routers and their services constructed
Constructed ==
  /\ now = 0
  /\ client = [c \in Clients |-> IdleClient]
  /\ sync = [p \in Passes |-> IdlePass]
  /\ SYNC_BATCH_SIZE \in 1..MaxBatchSize

\* requests may overlap
\* (the restarted store already holds the outcome of a create, so its run
\* is followed for one request fewer)
Init ==
  /\ Constructed
  /\ serial = FALSE
  /\ \/ /\ Fresh
        /\ budget = [requests |-> MaxRequests, passes |-> MaxPasses,
                     total |-> MaxOverlapTotal]
     \/ /\ Restarted
        /\ budget = [requests |-> MaxRequests, passes |-> MaxPasses,
                     total |-> MaxOverlapTotal - 1]

\* each request is answered before the next is sent
SerialInit ==
  /\ Fresh
  /\ Constructed
  /\ serial = TRUE
  /\ budget = [requests |-> MaxRequests, passes |-> MaxPasses,
               total |-> MaxSerialTotal]

Next ==
  \/ Tick
  \/ \E c \in Clients : PostTask(c)
  \/ \E c \in Clients : PutTask(c)
  \/ \E c \in Clients : UpdWrite(c)
  \/ \E c \in Clients : UpdReread(c)
  \/ \E c \in Clients : DeleteTask(c)
  \/ \E c \in Clients : DelWrite(c)
  \/ \E c \in Clients : EnqSelect(c)
  \/ \E c \in Clients : EnqWrite(c)
  \/ \E c \in Clients : ClientDone(c)
  \/ \E p \in Passes : PostSync(p)
  \/ \E p \in Passes : Drain(p)
  \/ \E p \in Passes : ProcessBatch(p)
  \/ \E p \in Passes : MarkSynced(p)
  \/ \E p \in Passes : Remove(p)
  \/ \E p \in Passes : ConflictGet(p)
  \/ \E p \in Passes : ConflictUpdate(p)
  \/ \E p \in Passes : ConflictMark(p)
  \/ \E p \in Passes : RecordFailure(p)
  \/ \E p \in Passes : MarkError(p)
  \/ \E p \in Passes : SyncDone(p)

Spec == Init /\ [][Next]_vars

\* ---- a pass always runs on ----------------------------------------------
\* the statements of sync() after an await that has settled: the store and
\* the exchange always settle, and the event loop then resumes the pass
PassNext ==
  \E p \in Passes :
    \/ Drain(p) \/ ProcessBatch(p) \/ MarkSynced(p) \/ Remove(p)
    \/ ConflictGet(p) \/ ConflictUpdate(p) \/ ConflictMark(p)
    \/ RecordFailure(p) \/ MarkError(p)

LiveSpec == SerialInit /\ [][Next]_vars /\ WF_vars(PassNext)

\* ---- crashes and store failures ----------------------------------------
\* the process dies and is started again: the handlers in flight are gone,
\* the database file stays
Crash ==
  /\ ~AllIdle /\ budget.total > 0
  /\ budget' = [budget EXCEPT !.total = @ - 1]
  /\ client' = [c \in Clients |-> IdleClient]
  /\ sync' = [p \in Passes |-> IdlePass]
  /\ UNCHANGED <<tasks, queue, now, nextId, SYNC_BATCH_SIZE, serial>>

\* sync()'s outer catch logs and rethrows; the route answers 500
Throw(ps) ==
  [IdlePass EXCEPT !.pc = "done", !.status = 500, !.hasConnectivity = ps.hasConnectivity]

\* a statement of sync() is rejected by the store: the queue read, or a
\* write of handleSyncError; inside the batch's try the rejection enters the
\* batch's catch, anywhere else it leaves sync()
StoreFailure(p) ==
  /\ budget.total > 0
  /\ budget' = [budget EXCEPT !.total = @ - 1]
  /\ \/ /\ sync[p].pc = "drain"
        /\ sync' = [sync EXCEPT ![p] = Throw(@)]
     \/ /\ sync[p].pc \in {"record_failure", "mark_error"}
        /\ sync' = [sync EXCEPT ![p] = IF @.caught THEN Throw(@)
                                       ELSE EnterCatch(@, "Store error")]
  /\ UNCHANGED <<tasks, queue, now, nextId, client, SYNC_BATCH_SIZE, serial>>

\* one request at a time, with crashes and store failures
FaultInit ==
  /\ Fresh
  /\ Constructed
  /\ serial = TRUE
  /\ budget = [requests |-> MaxRequests, passes |-> MaxPasses,
               total |-> MaxFaultTotal]

FaultNext ==
  \/ Next
  \/ Crash
  \/ \E p \in Passes : StoreFailure(p)

FaultSpec == FaultInit /\ [][FaultNext]_vars

SerialSpec == SerialInit /\ [][Next]_vars

\* ---- a mutation overlapping a pass on a queued item --------------------
\* the database file an earlier run left behind: T1 was created, two passes
\* failed on its create item, then T1 was renamed and the update queued
\* (SerialSpec reaches this store)
Renamed ==
  LET created == NewTask("t1", [title |-> "A"], 0)
      updated == [created EXCEPT !.title = "B"]
  IN /\ tasks = [t \in {"t1"} |-> InsertTaskRow(updated)]
     /\ queue = <<[id |-> 1, task_id |-> "t1", operation |-> "create",
                   data |-> JSONstringify(created), retry_count |-> 2, created_at |-> 0,
                   error_message |-> <<"Unknown error">>, status |-> Null],
                  [id |-> 2, task_id |-> "t1", operation |-> "update",
                   data |-> JSONstringify(updated), retry_count |-> 0, created_at |-> 0,
                   error_message |-> Null, status |-> Null]>>
     /\ nextId = 3

\* requests may overlap; the clock has moved on since the update was queued
RaceInit ==
  /\ Renamed
  /\ now = 1
  /\ client = [c \in Clients |-> IdleClient]
  /\ sync = [p \in Passes |-> IdlePass]
  /\ SYNC_BATCH_SIZE \in 1..MaxBatchSize
  /\ serial = FALSE
  /\ budget = [requests |-> MaxRequests, passes |-> MaxPasses,
               total |-> MaxRaceTotal]

RaceSpec == RaceInit /\ [][Next]_vars

TypeOK ==
  /\ now \in 0..MaxTime
  /\ \A c \in Clients : client[c].pc \in {"idle", "upd_write", "upd_reread", "del_write",
                                          "enq_select", "enq_write", "done"}

\* ---- properties ---------------------------------------------------------
\* positions of sync() at which an item of the current batch is being handled
Handling == {"mark_synced", "remove", "conflict_get", "conflict_update",
             "conflict_mark", "record_failure", "mark_error"}

RowsWithId(q, itemId) == SelectSeq(q, LAMBDA r : r.id = itemId)

\* the step is taken by pass p from position at / by client c
PassStep(p, at) == sync[p].pc = at /\ sync'[p] # sync[p]
ClientStep(c, at) == client[c].pc = at /\ client'[c] # client[c]

\* C1: starting from an empty queue, create T1, then a pass whose batch
\* exchange reports success for every submitted item: the pass returns
\* {success: 1, failed: 0, conflicts: 0, total: 1}, the queue is empty and
\* T1 is synced.
C1_EndToEnd ==
  [][\A p \in Passes :
       (/\ sync[p].pc \in Handling
        /\ sync'[p].pc = "done"
        /\ Len(sync[p].queueItems) = 1
        /\ sync[p].queueItems[1].operation = "create"
        /\ Len(sync[p].results) = 1
        /\ Has(sync[p].results[1], "success")
        /\ sync[p].results[1].success)
       => /\ sync'[p].result = [success |-> 1, failed |-> 0, conflicts |-> 0, total |-> 1]
          /\ queue' = <<>>
          /\ tasks'[sync[p].queueItems[1].task_id].sync_status = "synced"]_vars

C3_InConflict(p) == sync[p].pc \in {"conflict_get", "conflict_update", "conflict_mark"}
C3_Local(p) == JSONparse(CurrentItem(sync[p]).data)
C3_Remote(p) == ResponseItem(sync[p])[1].serverData

\* C3: for every pair (local, remote) the later updated_at wins and equal
\* timestamps return remote.
C3_TieFavoursRemote ==
  \A p \in Passes :
    (C3_InConflict(p) /\ Has(C3_Local(p), "updated_at"))
    => /\ C3_Local(p).updated_at < C3_Remote(p).updated_at
          => sync[p].resolvedTask = C3_Remote(p)
       /\ C3_Local(p).updated_at > C3_Remote(p).updated_at
          => sync[p].resolvedTask = C3_Local(p)
       /\ C3_Local(p).updated_at = C3_Remote(p).updated_at
          => sync[p].resolvedTask = C3_Remote(p)

\* what resolveConflict returns: the later updated_at, and local on equal
\* timestamps
C3_LastWriteWins ==
  \A p \in Passes :
    (C3_InConflict(p) /\ Has(C3_Local(p), "updated_at"))
    => /\ C3_Local(p).updated_at < C3_Remote(p).updated_at
          => sync[p].resolvedTask = C3_Remote(p)
       /\ C3_Local(p).updated_at > C3_Remote(p).updated_at
          => sync[p].resolvedTask = C3_Local(p)
       /\ C3_Local(p).updated_at = C3_Remote(p).updated_at
          => sync[p].resolvedTask = C3_Local(p)

\* a conflict with equal timestamps has been resolved
C3_TieResolved ==
  \E p \in Passes :
    /\ C3_InConflict(p)
    /\ Has(C3_Local(p), "updated_at")
    /\ C3_Local(p).updated_at = C3_Remote(p).updated_at

\* C4: at most one sync() pass is between its queue read and its return.
C4_MutualExclusion ==
  Cardinality({p \in Passes : sync[p].pc \in Handling \cup {"send"}}) <= 1

C5_Same(c, r) == r.task_id = client[c].id /\ r.operation = client[c].operation

\* C5: a second addToSyncQueue for a (task, operation) that is already
\* queued, whatever retry bookkeeping came in between, leaves exactly one
\* item for the pair, holding the serialization of the second payload, with
\* retry_count 0; the items of other pairs are unchanged.
C5_IdempotentEnqueue ==
  [][\A c \in Clients :
       (/\ ClientStep(c, "enq_write")
        /\ \E i \in 1..Len(queue) : C5_Same(c, queue[i]))
       => LET after == SelectSeq(queue', LAMBDA r : C5_Same(c, r))
              p2 == IF client[c].operation = "delete" THEN EmptyObj
                    ELSE mapRowToTask(tasks[client[c].id])
          IN /\ Len(after) = 1
             /\ after[1].retry_count = 0
             /\ after[1].data = JSONstringify(p2)
             /\ JSONparse(after[1].data) = p2
             /\ Len(queue') = Len(queue)
             /\ \A i \in 1..Len(queue) :
                  ~C5_Same(c, queue[i]) => queue'[i] = queue[i]]_vars

\* an update was queued again after its item had failed a pass
C5_RequeuedAfterFailure ==
  \E c \in Clients :
    /\ client[c].pc = "done" /\ client[c].status = 200 /\ client[c].operation = "update"
    /\ \E i \in 1..Len(queue) :
         /\ C5_Same(c, queue[i])
         /\ queue[i].retry_count = 0
         /\ queue[i].error_message # <<>>

\* the 1-based position in queueItems of the item being handled
C6_Position(ps) == (ps.bi - 1) * SYNC_BATCH_SIZE + ps.idx

\* C6: a pass holds the drained items oldest first and applies their
\* outcomes in that order, one position after the other, whatever the batch
\* size; queueing an existing (task, operation) again leaves created_at and
\* the place of every row as they were.
C6_Ordering ==
  [][/\ \A p \in Passes :
          /\ \A i, j \in 1..Len(sync'[p].queueItems) :
               i < j => sync'[p].queueItems[i].created_at <= sync'[p].queueItems[j].created_at
          /\ sync'[p].pc \in Handling
             => CurrentItem(sync'[p]) = sync'[p].queueItems[C6_Position(sync'[p])]
          /\ (sync[p].pc = "send" /\ sync'[p].pc \in Handling)
             => C6_Position(sync'[p]) = C6_Position(sync[p]) + 1
          /\ (sync[p].pc \in Handling /\ sync'[p].pc \in Handling)
             => C6_Position(sync'[p]) \in {C6_Position(sync[p]), C6_Position(sync[p]) + 1}
          /\ (sync[p].pc \in Handling /\ sync'[p].pc = "send")
             => C6_Position(sync'[p]) = C6_Position(sync[p])
          /\ (sync[p].pc \in Handling /\ sync'[p].pc = "done")
             => C6_Position(sync[p]) = Len(sync[p].queueItems)
     /\ \A c \in Clients :
          (ClientStep(c, "enq_write") /\ client[c].existing)
          => /\ Len(queue') = Len(queue)
             /\ \A i \in 1..Len(queue) : /\ queue'[i].id = queue[i].id
                                         /\ queue'[i].created_at = queue[i].created_at]_vars

\* three items enqueued at three different times, the last being handled
C6_ThreeInOrder ==
  \E p \in Passes :
    /\ sync[p].pc \in Handling
    /\ Len(sync[p].queueItems) = 3
    /\ sync[p].queueItems[1].created_at < sync[p].queueItems[2].created_at
    /\ sync[p].queueItems[2].created_at < sync[p].queueItems[3].created_at
    /\ CurrentItem(sync[p]) = sync[p].queueItems[3]

C7_Zero == [success |-> 0, failed |-> 0, conflicts |-> 0, total |-> 0]

\* C7: the result's total is the number of rows the pass drained, for every
\* queue length and batch size; an empty queue returns {0,0,0,0} at once,
\* without a batch exchange.
C7_BatchTotals ==
  [][\A p \in Passes :
       /\ PassStep(p, "drain")
          => /\ sync'[p].result.total = Len(queue)
             /\ Len(queue) = 0 => /\ sync'[p].pc = "done"
                                  /\ sync'[p].status = 200
                                  /\ sync'[p].result = C7_Zero
             /\ Len(queue) > 0 => sync'[p].pc = "send"
       /\ sync[p].pc \in Handling \cup {"send"}
          => sync'[p].result.total = Len(sync[p].queueItems)]_vars

\* a pass over three items in batches of two has returned
C7_ThreeInTwoBatches ==
  \E p \in Passes :
    /\ sync[p].pc = "done" /\ sync[p].status = 200
    /\ sync[p].result.total = 3
    /\ SYNC_BATCH_SIZE = 2

\* C8: when checkConnectivity() returns false, POST /sync answers 503 without
\* calling sync(): no pass runs on that request and the request leaves the
\* queue rows and the tasks as they were.
C8_ConnectivityGating ==
  [][\A p \in Passes :
       /\ (~sync'[p].hasConnectivity /\ sync'[p].pc # "idle")
          => /\ sync'[p].pc = "done"
             /\ sync'[p].status = 503
             /\ sync'[p].result = C7_Zero
       /\ (PassStep(p, "idle") /\ sync'[p].pc = "done")
          => /\ sync'[p].status = 503
             /\ queue' = queue
             /\ tasks' = tasks]_vars

\* a request was answered 503 while items were waiting in the queue
C8_Unreachable ==
  \E p \in Passes :
    /\ sync[p].pc = "done" /\ sync[p].status = 503
    /\ ~sync[p].hasConnectivity
    /\ queue # <<>>

C9_NoEntry(ps) ==
  \A i \in 1..Len(ps.results) :
    ~(Has(ps.results[i], "localId") /\ ps.results[i].localId = CurrentItem(ps).task_id)

\* C9: an item the response has no entry for is handled as an error with the
\* message "Unknown error"; when the exchange throws, every item of that
\* batch, first to last, is handled as an error with the thrown message, and
\* recording a failure changes no row but the item's own.
C9_OutcomeTotality ==
  [][\A p \in Passes :
       /\ (sync'[p].pc \in Handling /\ ~sync'[p].caught /\ C9_NoEntry(sync'[p]))
          => /\ sync'[p].pc \in {"record_failure", "mark_error"}
             /\ sync'[p].error = "Unknown error"
       /\ (sync'[p].pc \in Handling /\ sync'[p].caught)
          => /\ sync'[p].pc \in {"record_failure", "mark_error"}
             /\ sync'[p].error = "Network Error"
       /\ (sync[p].pc = "send" /\ sync'[p].caught)
          => sync'[p].idx = 1 /\ sync'[p].bi = sync[p].bi
       /\ (sync[p].pc \in Handling /\ sync[p].caught /\ sync'[p] # sync[p])
          => \/ /\ sync'[p].caught
                /\ sync'[p].bi = sync[p].bi
                /\ sync'[p].idx \in {sync[p].idx, sync[p].idx + 1}
                /\ sync'[p].result.success = sync[p].result.success
                /\ sync'[p].result.conflicts = sync[p].result.conflicts
             \/ /\ ~sync'[p].caught
                /\ sync[p].idx = Len(CurrentBatch(sync[p]))
                /\ sync'[p].result.failed = sync[p].result.failed + 1
       /\ PassStep(p, "record_failure")
          => /\ Len(queue') = Len(queue)
             /\ \A i \in 1..Len(queue) :
                  IF queue[i].id = CurrentItem(sync[p]).id
                  THEN /\ queue'[i].error_message = <<sync[p].error>>
                       /\ queue'[i].retry_count = CurrentItem(sync[p]).retry_count + 1
                  ELSE queue'[i] = queue[i]]_vars

\* the first batch had an item without an entry, the second batch threw
C9_MissingThenThrown ==
  \E p \in Passes :
    /\ sync[p].caught /\ sync[p].bi = 2 /\ sync[p].error = "Network Error"
    /\ \E i \in 1..Len(queue) :
         /\ queue[i].id = sync[p].queueItems[1].id
         /\ queue[i].error_message = <<"Unknown error">>

\* C10: a conflict outcome leaves the task's stored title and completion
\* flag equal to the winner's and the task synced, counts one conflict (no
\* success, no failure) and removes the queue item.
C10_ConflictOutcome ==
  [][\A p \in Passes :
       /\ PassStep(p, "conflict_mark")
          => LET taskId == CurrentItem(sync[p]).task_id
                 winner == sync[p].resolvedTask
             IN /\ tasks'[taskId].sync_status = "synced"
                /\ Has(winner, "title")
                   => /\ tasks'[taskId].title = winner.title
                      /\ (tasks'[taskId].completed # 0) = winner.completed
                /\ sync'[p].result = [sync[p].result EXCEPT !.conflicts = @ + 1]
                /\ sync'[p].pc = "remove"
       /\ PassStep(p, "remove")
          => Len(RowsWithId(queue', CurrentItem(sync[p]).id)) = 0]_vars

\* the store Restarted describes, as a serial run leaves it
RestartedReached == Restarted /\ now = 0 /\ AllIdle

\* C11: a pass whose queue read succeeded returns a result (the route answers
\* 200) whatever mix of error entries, missing entries and thrown exchanges
\* it met; each such item is handled as a failure: its row gets the message
\* and one more retry, and the failed count goes up by one for it.
C11_FailuresContained ==
  [][\A p \in Passes :
       /\ (sync[p].pc \in Handling \cup {"send"} /\ sync'[p].pc = "done")
          => /\ sync'[p].status = 200
             /\ sync'[p].result.total = Len(sync[p].queueItems)
       /\ (sync[p].pc = "send" /\ sync'[p] # sync[p])
          => sync'[p].pc \in Handling
       /\ PassStep(p, "record_failure")
          => /\ RowsWithId(queue, CurrentItem(sync[p]).id) # <<>>
                => /\ RowsWithId(queue', CurrentItem(sync[p]).id)[1].error_message
                        = <<sync[p].error>>
                   /\ RowsWithId(queue', CurrentItem(sync[p]).id)[1].retry_count
                        = CurrentItem(sync[p]).retry_count + 1
             /\ IF sync'[p].pc = "mark_error"
                THEN sync'[p].result = sync[p].result
                ELSE sync'[p].result = [sync[p].result EXCEPT !.failed = @ + 1]
       /\ PassStep(p, "mark_error")
          => sync'[p].result = [sync[p].result EXCEPT !.failed = @ + 1]]_vars

\* a pass has returned after one batch with a missing entry and one batch
\* whose exchange threw
C11_TwoFailuresReturned ==
  \E p \in Passes :
    /\ sync[p].pc = "done" /\ sync[p].status = 200
    /\ sync[p].result = [success |-> 0, failed |-> 2, conflicts |-> 0, total |-> 2]
    /\ \E i, j \in 1..Len(queue) :
         /\ queue[i].error_message = <<"Unknown error">>
         /\ queue[j].error_message = <<"Network Error">>

\* C12: when a create, update or delete request for task t completes
\* successfully, t is pending and the queue holds an item (t, operation)
\* with retry_count 0; the writes of the request never move t.updated_at
\* back and never change t.id.
C12_MutationQueued ==
  [][\A c \in Clients :
       /\ ClientStep(c, "enq_write")
          => /\ client'[c].pc = "done" /\ client'[c].status \in {200, 201}
             /\ tasks'[client[c].id].sync_status = "pending"
             /\ \E i \in 1..Len(queue') : /\ C5_Same(c, queue'[i])
                                          /\ queue'[i].retry_count = 0
       /\ (ClientStep(c, "upd_write") \/ ClientStep(c, "del_write"))
          => /\ tasks'[client[c].id].updated_at >= tasks[client[c].id].updated_at
             /\ tasks'[client[c].id].id = tasks[client[c].id].id
             /\ tasks'[client[c].id].sync_status = "pending"]_vars

\* C13: there is at most one queue item per (task id, operation) pair, also
\* when two addToSyncQueue calls for one pair interleave.
C13_QueueUniqueness ==
  \A i, j \in 1..Len(queue) :
    (queue[i].task_id = queue[j].task_id /\ queue[i].operation = queue[j].operation)
    => i = j

\* C14: no queue item has a retry_count above 3.
C14_RetryBound ==
  \A i \in 1..Len(queue) : queue[i].retry_count <= 3

\* C15: when a drained item with retry_count r < 2 gets an error outcome, the
\* item stays queued with retry_count r + 1 and the message stored, its task
\* is still pending, and the result counts it once as failed; a pass over a
\* one-item queue whose item fails returns {0, 1, 0, 1}.
C15_SingleError ==
  [][\A p \in Passes :
       LET item == CurrentItem(sync[p])
       IN /\ (PassStep(p, "record_failure") /\ item.retry_count < 2)
             => /\ Len(RowsWithId(queue', item.id)) = 1
                /\ RowsWithId(queue', item.id)[1].retry_count = item.retry_count + 1
                /\ RowsWithId(queue', item.id)[1].error_message = <<sync[p].error>>
                /\ tasks'[item.task_id].sync_status = "pending"
                /\ sync'[p].result = [sync[p].result EXCEPT !.failed = @ + 1]
          /\ (/\ PassStep(p, "record_failure") /\ item.retry_count < 2
              /\ Len(sync[p].queueItems) = 1)
             => /\ sync'[p].pc = "done"
                /\ sync'[p].result = [success |-> 0, failed |-> 1, conflicts |-> 0, total |-> 1]]_vars

\* C16: marking a task synced and removing its queue item are atomic
\* relative to a crash: no crash finds a pass that has marked the task of an
\* acknowledged item synced while the item is still in the queue, to be
\* drained again after the restart.
C16_CrashAtomicity ==
  [][Crash =>
       \A p \in Passes :
         ~(/\ sync[p].pc = "remove"
           /\ RowsWithId(queue', CurrentItem(sync[p]).id) # <<>>
           /\ tasks'[CurrentItem(sync[p]).task_id].sync_status = "synced")]_vars

\* C17: whenever sync() throws to its caller, the queue rows (the items with
\* their retry_count and error_message) are those the pass found when it
\* started.
C17_FatalLeavesQueue ==
  [][\A p \in Passes :
       (/\ sync[p].pc \in Handling \cup {"send", "drain"}
        /\ sync'[p].pc = "done" /\ sync'[p].status = 500)
       => /\ queue' = queue
          /\ sync[p].pc # "drain" => Range(queue') = Range(sync[p].queueItems)]_vars

\* C18: a task's sync_status becomes synced only in a step of a pass that
\* handles a success or a conflict entry the exchange returned for an item
\* the pass drained from the queue for that task.
C18_SyncedOnlyByAck ==
  [][\A t \in DOMAIN tasks' :
       (/\ tasks'[t].sync_status = "synced"
        /\ t \in DOMAIN tasks => tasks[t].sync_status # "synced")
       => \E p \in Passes :
            /\ PassStep(p, "mark_synced") \/ PassStep(p, "conflict_mark")
            /\ CurrentItem(sync[p]).task_id = t
            /\ \E k \in 1..Len(sync[p].results) :
                 /\ Has(sync[p].results[k], "localId")
                 /\ sync[p].results[k].localId = t
                 /\ \/ Has(sync[p].results[k], "success")
                    \/ Has(sync[p].results[k], "conflict")]_vars

\* a conflict outcome has marked a task synced that was changed locally
\* after it had been created
C18_SyncedByConflict ==
  \E p \in Passes :
    /\ sync[p].pc = "remove"
    /\ \E k \in 1..Len(sync[p].results) : Has(sync[p].results[k], "conflict")
    /\ tasks[CurrentItem(sync[p]).task_id].sync_status = "synced"
    /\ CurrentItem(sync[p]).operation = "update"

C19_Partitioned(q) ==
  LET bs == batches(q)
      B == SYNC_BATCH_SIZE
  IN /\ Flatten(bs) = q
     /\ \A i \in 1..Len(bs) : Len(bs[i]) >= 1 /\ Len(bs[i]) <= B
     /\ Len(bs) = (Len(q) + B - 1) \div B
     /\ \A i \in 1..Len(bs) : \A k \in 1..Len(bs[i]) : bs[i][k] = q[(i - 1) * B + k]

\* C19: the batches of a pass are consecutive slices of the drained
\* sequence, each of 1 to B items, ceil(n / B) of them, whose concatenation
\* is the drained sequence; and a pass that is running returns (with one
\* request at a time: whenever a pass is running, later none is).
C19_BatchPartition ==
  /\ [](\A p \in Passes : C19_Partitioned(sync[p].queueItems))
  /\ (\E p \in Passes : sync[p].pc \notin {"idle", "done"})
       ~> (\A p \in Passes : sync[p].pc \in {"idle", "done"})

\* three drained items in a batch of two and a batch of one, the last item
\* being handled
C19_FullAndPartialBatch ==
  \E p \in Passes :
    /\ Len(sync[p].queueItems) = 3 /\ SYNC_BATCH_SIZE = 2
    /\ sync[p].bi = 2 /\ sync[p].idx = 1 /\ sync[p].pc \in Handling

\* C20: an update or delete request for a task id that is absent or
\* soft-deleted is answered not-found (or, for a malformed body, with a
\* validation error), and a request answered with a validation error or
\* not-found on arrival adds no queue item, changes no queue item and
\* changes no task.
C20_RejectedNoEffect ==
  [][\A c \in Clients :
       ClientStep(c, "idle")
       => /\ client'[c].pc = "done"
             => /\ client'[c].status \in {400, 404}
                /\ tasks' = tasks /\ queue' = queue /\ nextId' = nextId
          /\ (/\ client'[c].operation \in {"update", "delete"}
              /\ \/ client'[c].id \notin DOMAIN tasks
                 \/ tasks[client'[c].id].is_deleted = 1)
             => /\ client'[c].pc = "done"
                /\ client'[c].status = 404]_vars

\* a delete of a task that is already soft-deleted was answered not-found
\* while its items were queued
C20_DeletedTaskRejected ==
  \E c \in Clients :
    /\ client[c].pc = "done" /\ client[c].status = 404
    /\ client[c].operation = "delete"
    /\ client[c].id \in DOMAIN tasks
    /\ tasks[client[c].id].is_deleted = 1
    /\ \E i \in 1..Len(queue) : queue[i].task_id = client[c].id

\* C22: on every return of sync() success + failed + conflicts = total, also
\* when a statement fails part-way through a batch.
C22_CountedOnce ==
  [][\A p \in Passes :
       (/\ sync[p].pc \in Handling /\ sync'[p].pc = "done" /\ sync'[p].status = 200)
       => sync'[p].result.success + sync'[p].result.failed + sync'[p].result.conflicts
            = sync'[p].result.total]_vars

\* C23: whenever no sync pass is in progress, no queue item references a
\* task whose sync_status is synced.
C23_NoStaleSynced ==
  (\A p \in Passes : sync[p].pc \in {"idle", "done"})
  => \A i \in 1..Len(queue) : tasks[queue[i].task_id].sync_status # "synced"

\* the response reports success for every item of the batch it answers
C21_AllSuccess(ps) ==
  /\ Len(ps.results) = Len(CurrentBatch(ps))
  /\ \A k \in 1..Len(ps.results) :
       Has(ps.results[k], "success") /\ ps.results[k].success

\* C21: with no new local mutations, a pass whose exchanges report success
\* for every submitted item applies a success outcome to each of them and
\* returns with the queue empty and the tasks of its items synced; and a
\* pass interrupted part-way leaves no item in the queue whose success
\* outcome it had already applied, so the next pass drains only the rest.
C21_Resumable ==
  [][\A p \in Passes :
       /\ (/\ sync[p].pc \in Handling \cup {"send"} /\ sync'[p] # sync[p]
           /\ sync'[p].pc \in Handling /\ ~sync'[p].caught
           /\ C21_AllSuccess(sync'[p]))
          => sync'[p].pc \in {"mark_synced", "remove"}
       /\ (/\ sync[p].pc = "remove" /\ sync'[p].pc = "done"
           /\ sync'[p].result.success = sync'[p].result.total)
          => /\ queue' = <<>>
             /\ \A k \in 1..Len(sync[p].queueItems) :
                  tasks'[sync[p].queueItems[k].task_id].sync_status = "synced"
       /\ (Crash /\ sync[p].pc = "remove")
          => (tasks'[CurrentItem(sync[p]).task_id].sync_status = "synced"
                => RowsWithId(queue', CurrentItem(sync[p]).id) = <<>>)]_vars


\* the store Renamed describes, as a serial run leaves it
RenamedReached == Renamed /\ now = 0 /\ AllIdle

\* C24: when a mutation has replaced the payload of a queued (task, op) row
\* after a pass drained it, the pass, which was acknowledged the older
\* payload, does not both remove the row and leave the task synced: the
\* queue still holds the newer payload for (task, op) afterwards.
C24_NoLostUpdate ==
  [][\A p \in Passes :
       (/\ PassStep(p, "remove")
        /\ \E i \in 1..Len(queue) :
             /\ queue[i].id = CurrentItem(sync[p]).id
             /\ queue[i].data # CurrentItem(sync[p]).data)
       => \/ \E i \in 1..Len(queue') :
               /\ queue'[i].task_id = CurrentItem(sync[p]).task_id
               /\ queue'[i].operation = CurrentItem(sync[p]).operation
               /\ queue'[i].data # CurrentItem(sync[p]).data
          \/ tasks'[CurrentItem(sync[p]).task_id].sync_status # "synced"]_vars
====
